---- MODULE Spec2Model ----
(***************************************************************************)
(* Internal key format of db/dbformat.h: the 8-byte footer codec, the      *)
(* InternalKeyComparator, RangeTombstone serialization and the IterKey     *)
(* key builder.                                                            *)
(*                                                                         *)
(* A byte is a number in 0..255 and a Slice / std::string is a sequence of *)
(* bytes.  A uint64_t is kept at its width as four 16-bit limbs, least     *)
(* significant first, so that shifts lose the bits the machine loses.      *)
(***************************************************************************)
EXTENDS Integers, Sequences, FiniteSets, TLC

VARIABLES
    pc,            \* "call" before the function under test ran, "done" after
    in,            \* the arguments of the call
    out,           \* what the call returned
    buf_,          \* IterKey::buf_      (address of the owned buffer)
    key_,          \* IterKey::key_      (address the held key starts at)
    key_size_,     \* IterKey::key_size_
    buf_size_,     \* IterKey::buf_size_
    is_user_key_,  \* IterKey::is_user_key_
    mem,           \* memory: address -> bytes of the block that starts there
    call,          \* the last IterKey operation and the state it acted on
    nops,          \* number of IterKey operations applied so far
    rep_           \* InternalKey::rep_

vars == <<pc, in, out, buf_, key_, key_size_, buf_size_,
          is_user_key_, mem, call, nops, rep_>>

fmtVars == <<pc, in, out>>
iterVars == <<buf_, key_, key_size_, buf_size_, is_user_key_, mem, call, nops>>

(***************************************************************************)
(* Bounds of the model                                                     *)
(***************************************************************************)
MaxUserKeyLen == 2     \* user keys of the codec calls have 0..MaxUserKeyLen bytes
MaxCmpKeyLen == 1      \* user keys of the three-key comparator calls
MaxRawLen == 7         \* raw parse inputs of every length 0..MaxRawLen
MaxOps == 2            \* IterKey operations applied after construction
MaxTsSz == 1           \* timestamp sizes 0..MaxTsSz
MaxTsWidth == 10       \* range tombstone timestamps of 1..MaxTsWidth bytes

(***************************************************************************)
(* ValueType                                                               *)
(***************************************************************************)
kTypeDeletion == 0
kTypeValue == 1
kTypeMerge == 2
kTypeLogData == 3
kTypeSingleDeletion == 7
kTypeRangeDeletion == 15
kTypeColumnFamilyBlobIndex == 16
kTypeTitanBlobIndex == 17
kTypeDeletionWithTimestamp == 20
kTypeWideColumnEntity == 22
kTypeBlobIndex == 24
kTypeMaxValid == 25
kMaxValue == 127

\* the tags the enum marks "WAL only" (kTypeLogData is above)
kTypeColumnFamilyDeletion == 4
kTypeColumnFamilyValue == 5
kTypeColumnFamilyMerge == 6
kTypeColumnFamilySingleDeletion == 8
kTypeBeginPrepareXID == 9
kTypeEndPrepareXID == 10
kTypeCommitXID == 11
kTypeRollbackXID == 12
kTypeNoop == 13
kTypeColumnFamilyRangeDeletion == 14
kTypeBeginPersistedPrepareXID == 18
kTypeBeginUnprepareXID == 19
kTypeCommitXIDAndTimestamp == 21
kTypeColumnFamilyWideColumnEntity == 23
WalOnlyTags ==
    {kTypeLogData, kTypeColumnFamilyDeletion, kTypeColumnFamilyValue,
     kTypeColumnFamilyMerge, kTypeColumnFamilySingleDeletion,
     kTypeBeginPrepareXID, kTypeEndPrepareXID, kTypeCommitXID,
     kTypeRollbackXID, kTypeNoop, kTypeColumnFamilyRangeDeletion,
     kTypeBeginPersistedPrepareXID, kTypeBeginUnprepareXID,
     kTypeCommitXIDAndTimestamp, kTypeColumnFamilyWideColumnEntity}

Byte == 0..255

\* n copies of byte b
Rep(b, n) == [i \in 1..n |-> b]

\* IsValueType with the range test one tag short
IsValueType_UpToValue(t) ==
    \/ t <= kTypeValue
    \/ kTypeSingleDeletion = t
    \/ kTypeBlobIndex = t
    \/ kTypeDeletionWithTimestamp = t
    \/ kTypeWideColumnEntity = t

IsValueType(t) ==
    \/ t <= kTypeMerge
    \/ kTypeSingleDeletion = t
    \/ kTypeBlobIndex = t
    \/ kTypeDeletionWithTimestamp = t
    \/ kTypeWideColumnEntity = t

IsExtendedValueType(t) ==
    IsValueType(t) \/ t = kTypeRangeDeletion \/ t = kTypeMaxValid

ExtendedTags == {t \in Byte : IsExtendedValueType(t)}

(***************************************************************************)
(* uint64_t arithmetic on four 16-bit limbs (least significant first)      *)
(***************************************************************************)
U64Small(n) == <<n, 0, 0, 0>>

\* (0x1ull << 56) - 1
kMaxSequenceNumber == <<65535, 65535, 65535, 255>>

\* std::numeric_limits<uint64_t>::max()
kDisableGlobalSequenceNumber == <<65535, 65535, 65535, 65535>>

kNumInternalBytes == 8

\* x << 8 on uint64_t: the top byte is shifted out
Shl8(x) ==
    [i \in 1..4 |-> (x[i] % 256) * 256 + (IF i = 1 THEN 0 ELSE x[i - 1] \div 256)]

\* x >> 8 on uint64_t
Shr8(x) ==
    [i \in 1..4 |-> (x[i] \div 256) + (IF i = 4 THEN 0 ELSE (x[i + 1] % 256) * 256)]

RECURSIVE BitOr(_, _, _)
BitOr(a, b, n) ==
    IF n = 0 THEN 0
    ELSE (IF a % 2 = 1 \/ b % 2 = 1 THEN 1 ELSE 0)
         + 2 * BitOr(a \div 2, b \div 2, n - 1)

\* x | t for a one-byte t
OrByte(x, t) == [x EXCEPT ![1] = BitOr(x[1], t, 16)]

\* x & 0xff
LowByte(x) == x[1] % 256

\* a < b on uint64_t
U64Less(a, b) ==
    \E i \in 1..4 : a[i] < b[i] /\ \A j \in (i + 1)..4 : a[j] = b[j]

U64Leq(a, b) == a = b \/ U64Less(a, b)

\* EncodeFixed64: the eight bytes of x, least significant first
EncodeFixed64(x) ==
    [i \in 1..8 |-> IF i % 2 = 1 THEN x[(i + 1) \div 2] % 256
                                 ELSE x[i \div 2] \div 256]

\* DecodeFixed64 of the eight bytes b
DecodeFixed64(b) ==
    [i \in 1..4 |-> b[2 * i - 1] + 256 * b[2 * i]]

(***************************************************************************)
(* Footer codec                                                            *)
(***************************************************************************)
\* the two assertions of PackSequenceAndType
PackSequenceAndTypeAsserts(seq, t) ==
    /\ U64Leq(seq, kMaxSequenceNumber)
    /\ (IsExtendedValueType(t) \/ t = kTypeMaxValid)

\* PackSequenceAndType with the tag in the top byte: seq | (t << 56)
PackSequenceAndType_TagHigh(seq, t) == [seq EXCEPT ![4] = (@ % 256) + 256 * t]

PackSequenceAndType(seq, t) == OrByte(Shl8(seq), t)

UnPackSequenceAndType(packed) ==
    [seq |-> Shr8(packed), t |-> LowByte(packed)]

\* dbformat.cc: result->append(user_key); PutFixed64(result, Pack(seq, type))
AppendInternalKey(result, user_key, sequence, type) ==
    result \o user_key \o EncodeFixed64(PackSequenceAndType(sequence, type))

ExtractUserKey(internal_key) ==
    SubSeq(internal_key, 1, Len(internal_key) - kNumInternalBytes)

\* the last eight bytes of a key of at least eight bytes
FooterBytes(internal_key) ==
    SubSeq(internal_key, Len(internal_key) - kNumInternalBytes + 1,
           Len(internal_key))

ExtractInternalKeyFooter(internal_key) == DecodeFixed64(FooterBytes(internal_key))

ExtractValueType(internal_key) == LowByte(ExtractInternalKeyFooter(internal_key))

GetInternalKeySeqno(internal_key) == Shr8(ExtractInternalKeyFooter(internal_key))

\* ParseInternalKey storing the whole footer as the sequence (no >> 8)
ParseInternalKey_NoShift(internal_key, ndebug) ==
    LET n == Len(internal_key) IN
    IF n < kNumInternalBytes
    THEN [status |-> "Corruption", reads |-> {}, user_key |-> <<>>,
          sequence |-> kMaxSequenceNumber, type |-> kTypeDeletion]
    ELSE LET num == DecodeFixed64(FooterBytes(internal_key))
             c == LowByte(num)
         IN  [status |-> IF IsExtendedValueType(c) THEN "OK" ELSE "Corruption",
              reads |-> (n - kNumInternalBytes)..(n - 1),
              user_key |-> SubSeq(internal_key, 1, n - kNumInternalBytes),
              sequence |-> num, type |-> c]

\* ParseInternalKey decoding the footer before it checks the length
ParseInternalKey_FooterFirst(internal_key, ndebug) ==
    LET n == Len(internal_key)
        rd == (n - kNumInternalBytes)..(n - 1)
    IN  IF n < kNumInternalBytes
        THEN [status |-> "Corruption", reads |-> rd, user_key |-> <<>>,
              sequence |-> kMaxSequenceNumber, type |-> kTypeDeletion]
        ELSE LET num == DecodeFixed64(FooterBytes(internal_key))
                 c == LowByte(num)
             IN  [status |-> IF IsExtendedValueType(c) THEN "OK"
                                                       ELSE "Corruption",
                  reads |-> rd,
                  user_key |-> SubSeq(internal_key, 1, n - kNumInternalBytes),
                  sequence |-> Shr8(num), type |-> c]

\* The byte offsets (0-based) of the input that ParseInternalKey reads, its
\* status and the fields it stores in *result.
ParseInternalKey(internal_key, ndebug) ==
    LET n == Len(internal_key) IN
    IF n < kNumInternalBytes
    THEN [status |-> "Corruption", reads |-> {}, user_key |-> <<>>,
          sequence |-> kMaxSequenceNumber, type |-> kTypeDeletion]
    ELSE LET num == DecodeFixed64(FooterBytes(internal_key))
             c == LowByte(num)
             rd == (n - kNumInternalBytes)..(n - 1)
         IN  IF ~ndebug /\ ~(c <= kMaxValue)
             THEN [status |-> "AssertionFailure", reads |-> rd,
                   user_key |-> <<>>, sequence |-> Shr8(num), type |-> c]
             ELSE [status |-> IF IsExtendedValueType(c) THEN "OK"
                                                        ELSE "Corruption",
                   reads |-> rd,
                   user_key |-> SubSeq(internal_key, 1, n - kNumInternalBytes),
                   sequence |-> Shr8(num), type |-> c]

(***************************************************************************)
(* User comparator: the bytewise order of Slice::compare, or its reverse   *)
(***************************************************************************)
Min(a, b) == IF a < b THEN a ELSE b

RECURSIVE MemCmp(_, _, _, _)
MemCmp(a, b, i, n) ==
    IF i > n THEN 0
    ELSE IF a[i] # b[i] THEN a[i] - b[i]
    ELSE MemCmp(a, b, i + 1, n)

BytewiseCompare(a, b) ==
    LET r == MemCmp(a, b, 1, Min(Len(a), Len(b))) IN
    IF r # 0 THEN r
    ELSE IF Len(a) < Len(b) THEN -1
    ELSE IF Len(a) > Len(b) THEN 1
    ELSE 0

UserCompare(ucmp, a, b) ==
    IF ucmp = "bytewise" THEN BytewiseCompare(a, b) ELSE BytewiseCompare(b, a)

UserComparators == {"bytewise", "reverse"}

(***************************************************************************)
(* InternalKeyComparator                                                   *)
(***************************************************************************)
\* Compare without the branch for anum < bnum
Compare_OneSided(ucmp, akey, bkey) ==
    LET r == UserCompare(ucmp, ExtractUserKey(akey), ExtractUserKey(bkey))
        anum == DecodeFixed64(FooterBytes(akey))
        bnum == DecodeFixed64(FooterBytes(bkey))
    IN  IF r = 0
        THEN IF U64Less(bnum, anum) THEN -1 ELSE r
        ELSE r

\* Compare ordering the footers ascending
Compare_Ascending(ucmp, akey, bkey) ==
    LET r == UserCompare(ucmp, ExtractUserKey(akey), ExtractUserKey(bkey))
        anum == DecodeFixed64(FooterBytes(akey))
        bnum == DecodeFixed64(FooterBytes(bkey))
    IN  IF r = 0
        THEN IF U64Less(anum, bnum) THEN -1
             ELSE IF U64Less(bnum, anum) THEN 1
             ELSE r
        ELSE r

Compare(ucmp, akey, bkey) ==
    LET r == UserCompare(ucmp, ExtractUserKey(akey), ExtractUserKey(bkey))
        anum == DecodeFixed64(FooterBytes(akey))
        bnum == DecodeFixed64(FooterBytes(bkey))
    IN  IF r = 0
        THEN IF U64Less(bnum, anum) THEN -1
             ELSE IF U64Less(anum, bnum) THEN 1
             ELSE r
        ELSE r

\* CompareKeySeq comparing the whole footers, tag included
CompareKeySeq_WithTag(ucmp, akey, bkey) ==
    LET r == UserCompare(ucmp, ExtractUserKey(akey), ExtractUserKey(bkey))
        anum == DecodeFixed64(FooterBytes(akey))
        bnum == DecodeFixed64(FooterBytes(bkey))
    IN  IF r = 0
        THEN IF U64Less(bnum, anum) THEN -1
             ELSE IF U64Less(anum, bnum) THEN 1
             ELSE r
        ELSE r

CompareKeySeq(ucmp, akey, bkey) ==
    LET r == UserCompare(ucmp, ExtractUserKey(akey), ExtractUserKey(bkey))
        anum == Shr8(DecodeFixed64(FooterBytes(akey)))
        bnum == Shr8(DecodeFixed64(FooterBytes(bkey)))
    IN  IF r = 0
        THEN IF U64Less(bnum, anum) THEN -1
             ELSE IF U64Less(anum, bnum) THEN 1
             ELSE r
        ELSE r

\* CompareKeySeq(const ParsedInternalKey& a, const Slice& b)
CompareKeySeqParsed(ucmp, a, b) ==
    LET r == UserCompare(ucmp, a.user_key, ExtractUserKey(b))
        anum == a.sequence
        bnum == Shr8(DecodeFixed64(FooterBytes(b)))
    IN  IF r = 0
        THEN IF U64Less(bnum, anum) THEN -1
             ELSE IF U64Less(anum, bnum) THEN 1
             ELSE r
        ELSE r

\* One side of the override: the footer the comparison uses, and whether the
\* assertions of PackSequenceAndType hold when it is called.
GlobalSeqnoFooter(key, global_seqno) ==
    IF global_seqno = kDisableGlobalSequenceNumber
    THEN [ok |-> TRUE, footer |-> ExtractInternalKeyFooter(key)]
    ELSE [ok |-> PackSequenceAndTypeAsserts(global_seqno, ExtractValueType(key)),
          footer |-> PackSequenceAndType(global_seqno, ExtractValueType(key))]

\* the override Compare building both footers before it looks at the user keys
CompareGlobalSeqno_EagerPack(ucmp, a, a_global_seqno, b, b_global_seqno, ndebug) ==
    LET r == UserCompare(ucmp, ExtractUserKey(a), ExtractUserKey(b))
        af == GlobalSeqnoFooter(a, a_global_seqno)
        bf == GlobalSeqnoFooter(b, b_global_seqno)
    IN  IF ~ndebug /\ ~(af.ok /\ bf.ok)
        THEN [status |-> "AssertionFailure", r |-> 0]
        ELSE IF r = 0
        THEN [status |-> "OK",
              r |-> IF U64Less(bf.footer, af.footer) THEN -1
                    ELSE IF U64Less(af.footer, bf.footer) THEN 1
                    ELSE r]
        ELSE [status |-> "OK", r |-> r]

\* the override Compare taking kMaxSequenceNumber for the disable sentinel too
CompareGlobalSeqno_MaxIsDisabled(ucmp, a, a_global_seqno, b, b_global_seqno, ndebug) ==
    LET r == UserCompare(ucmp, ExtractUserKey(a), ExtractUserKey(b))
        Side(key, g) ==
            IF U64Leq(kMaxSequenceNumber, g)
            THEN [ok |-> TRUE, footer |-> ExtractInternalKeyFooter(key)]
            ELSE GlobalSeqnoFooter(key, g)
        af == Side(a, a_global_seqno)
        bf == Side(b, b_global_seqno)
    IN  IF r = 0
        THEN IF ~ndebug /\ ~(af.ok /\ bf.ok)
             THEN [status |-> "AssertionFailure", r |-> 0]
             ELSE [status |-> "OK",
                   r |-> IF U64Less(bf.footer, af.footer) THEN -1
                         ELSE IF U64Less(af.footer, bf.footer) THEN 1
                         ELSE r]
        ELSE [status |-> "OK", r |-> r]

CompareGlobalSeqno(ucmp, a, a_global_seqno, b, b_global_seqno, ndebug) ==
    LET r == UserCompare(ucmp, ExtractUserKey(a), ExtractUserKey(b))
        af == GlobalSeqnoFooter(a, a_global_seqno)
        bf == GlobalSeqnoFooter(b, b_global_seqno)
    IN  IF r = 0
        THEN IF ~ndebug /\ ~(af.ok /\ bf.ok)
             THEN [status |-> "AssertionFailure", r |-> 0]
             ELSE [status |-> "OK",
                   r |-> IF U64Less(bf.footer, af.footer) THEN -1
                         ELSE IF U64Less(af.footer, bf.footer) THEN 1
                         ELSE r]
        ELSE [status |-> "OK", r |-> r]

(***************************************************************************)
(* RangeTombstone                                                          *)
(***************************************************************************)
\* dbformat.cc: the user key without its last |ts| bytes, then ts, then the
\* footer
AppendInternalKeyWithDifferentTimestamp(result, user_key, sequence, type, ts) ==
    result \o SubSeq(user_key, 1, Len(user_key) - Len(ts)) \o ts
           \o EncodeFixed64(PackSequenceAndType(sequence, type))

\* RangeTombstone(Slice sk, Slice ek, SequenceNumber sn)
RangeTombstone(sk, ek, sn) ==
    [start_key_ |-> sk, end_key_ |-> ek, seq_ |-> sn, ts_ |-> <<>>]

\* RangeTombstone(Slice sk, Slice ek, SequenceNumber sn, Slice ts): ts takes
\* the place of the last |ts| bytes of sk and of ek
RangeTombstoneWithTs(sk, ek, sn, ts) ==
    LET pinned_start_key_ == SubSeq(sk, 1, Len(sk) - Len(ts)) \o ts
        pinned_end_key_ == SubSeq(ek, 1, Len(ek) - Len(ts)) \o ts
    IN  [start_key_ |-> pinned_start_key_, end_key_ |-> pinned_end_key_,
         seq_ |-> sn, ts_ |-> ts]

\* static constexpr char kTsMax[] = "\xff\xff\xff\xff\xff\xff\xff\xff\xff"
kTsMax == <<255, 255, 255, 255, 255, 255, 255, 255, 255>>

\* InternalKey(start_key_, seq_, kTypeRangeDeletion): the bytes of its rep_
SerializeKey(tomb) ==
    AppendInternalKey(<<>>, tomb.start_key_, tomb.seq_, kTypeRangeDeletion)

\* SerializeEndKey with the tombstone's own sequence number
SerializeEndKey_OwnSeq(tomb) ==
    AppendInternalKey(<<>>, tomb.end_key_, tomb.seq_, kTypeRangeDeletion)

\* SerializeEndKey that leaves the tombstone's own timestamp in the end key
SerializeEndKey_KeepsTs(tomb) ==
    AppendInternalKey(<<>>, tomb.end_key_, kMaxSequenceNumber,
                      kTypeRangeDeletion)

SerializeEndKey(tomb) ==
    IF tomb.ts_ # <<>>
    THEN IF Len(tomb.ts_) <= Len(kTsMax)
         THEN AppendInternalKeyWithDifferentTimestamp(
                  <<>>, tomb.end_key_, kMaxSequenceNumber, kTypeRangeDeletion,
                  SubSeq(kTsMax, 1, Len(tomb.ts_)))
         ELSE AppendInternalKeyWithDifferentTimestamp(
                  <<>>, tomb.end_key_, kMaxSequenceNumber, kTypeRangeDeletion,
                  Rep(255, Len(tomb.ts_)))
    ELSE AppendInternalKey(<<>>, tomb.end_key_, kMaxSequenceNumber,
                           kTypeRangeDeletion)

(***************************************************************************)
(* InternalKey: the value of an InternalKey object is its rep_             *)
(***************************************************************************)
\* dbformat.cc: appends the footer to *result, which ends with the user key
AppendInternalKeyFooter(result, s, t) ==
    result \o EncodeFixed64(PackSequenceAndType(s, t))

\* dbformat.cc defines kValueTypeForSeek, the tag of seek keys: the highest
\* numbered tag of stored records, which is one of these
ValueTypesForSeek == {kTypeWideColumnEntity, kTypeBlobIndex}

\* InternalKey() {}
InternalKey == <<>>

\* SetMaxPossibleForUserKey with the sequence number of the other sentinel
SetMaxPossibleForUserKey_MaxSeq(self, user_key) ==
    AppendInternalKey(self, user_key, kMaxSequenceNumber, 0)

SetMaxPossibleForUserKey(self, user_key) ==
    AppendInternalKey(self, user_key, U64Small(0), 0)

\* seek stands for kValueTypeForSeek
SetMinPossibleForUserKey(self, user_key, seek) ==
    AppendInternalKey(self, user_key, kMaxSequenceNumber, seek)

\* ParseInternalKey(Slice(rep_), &parsed, false).ok(), or the failed assert
\* of ParseInternalKey
Valid(self, ndebug) ==
    LET p == ParseInternalKey(self, ndebug) IN
    IF p.status = "AssertionFailure"
    THEN [status |-> "AssertionFailure", r |-> FALSE]
    ELSE [status |-> "OK", r |-> p.status = "OK"]

\* rep_.assign(s.data(), s.size())
DecodeFrom(self, s) == s

\* InternalKey::user_key()
RepUserKey(self) == ExtractUserKey(self)

\* InternalKey::size()
RepSize(self) == Len(self)

\* rep_.clear(); AppendInternalKey(&rep_, p)
SetFrom(self, p) == AppendInternalKey(<<>>, p.user_key, p.sequence, p.type)

Set(self, user_key, s, t) ==
    SetFrom(self, [user_key |-> user_key, sequence |-> s, type |-> t])

\* InternalKey::Clear
ClearRep(self) == <<>>

ConvertFromUserKey(self, s, t) == AppendInternalKeyFooter(self, s, t)

(***************************************************************************)
(* IterKey                                                                 *)
(*                                                                         *)
(* An address names a block of memory: the inline array space_, a heap     *)
(* block of new char[], or the caller's memory that an unowned key points  *)
(* to.  mem[a] is the content of the block at a, <<>> when there is none.  *)
(* An IterKey value is the record of its fields together with mem.         *)
(***************************************************************************)
\* sizeof(space_)
kInlineSize == 39

HeapAddrs == {"heap1", "heap2"}
Addrs == {"space_", "ext"} \cup HeapAddrs

\* what an uninitialised byte may hold
GarbageBytes == {0, 170}

\* memcpy(dst + off, data, Len(data))
MemCpy(m, dst, off, data) ==
    [m EXCEPT ![dst] =
        [i \in 1..Len(@) |-> IF i > off /\ i <= off + Len(data)
                             THEN data[i - off] ELSE @[i]]]

\* the n bytes at address a + off
MemRead(m, a, off, n) == SubSeq(m[a], off + 1, off + n)

\* IterKey(): buf_(space_), key_(buf_), key_size_(0), buf_size_(sizeof(space_))
IterKey(fill) ==
    [buf_ |-> "space_", key_ |-> "space_", key_size_ |-> 0,
     buf_size_ |-> kInlineSize, is_user_key_ |-> TRUE,
     mem |-> [a \in Addrs |-> IF a = "space_" THEN Rep(fill, kInlineSize)
                                              ELSE <<>>]]

IsKeyPinned(self) == self.key_ # self.buf_

IsUserKey(self) == self.is_user_key_

GetKey(self) == MemRead(self.mem, self.key_, 0, self.key_size_)

Size(self) == self.key_size_

ResetBuffer(self) ==
    LET freed == IF self.buf_ # "space_"
                 THEN [self EXCEPT !.mem[self.buf_] = <<>>, !.buf_ = "space_"]
                 ELSE self
    IN  [freed EXCEPT !.buf_size_ = kInlineSize, !.key_size_ = 0]

\* dbformat.cc: ResetBuffer(); buf_ = new char[key_size]; buf_size_ = key_size
\* alloc = the address new char[] returns and the byte its garbage holds
EnlargeBuffer(self, key_size, alloc) ==
    LET r == ResetBuffer(self) IN
    [r EXCEPT !.buf_ = alloc.addr, !.buf_size_ = key_size,
              !.mem[alloc.addr] = Rep(alloc.fill, key_size)]

EnlargeBufferIfNeeded(self, key_size, alloc) ==
    IF key_size > self.buf_size_ THEN EnlargeBuffer(self, key_size, alloc)
    ELSE self

SetKeyImpl(self, key, copy, alloc) ==
    IF copy
    THEN LET e == EnlargeBufferIfNeeded(self, Len(key), alloc) IN
         [e EXCEPT !.mem = MemCpy(e.mem, e.buf_, 0, key),
                   !.key_ = e.buf_, !.key_size_ = Len(key)]
    ELSE [self EXCEPT !.mem["ext"] = key, !.key_ = "ext",
                      !.key_size_ = Len(key)]

SetKey(self, key, copy, alloc) == SetKeyImpl(self, key, copy, alloc)

SetUserKey(self, key, copy, alloc) ==
    SetKeyImpl([self EXCEPT !.is_user_key_ = TRUE], key, copy, alloc)

SetInternalKey(self, key, copy, alloc) ==
    SetKeyImpl([self EXCEPT !.is_user_key_ = FALSE], key, copy, alloc)

\* TrimAppend that appends where key_ points, pinned or not
TrimAppend_ThroughKey(self, shared_len, non_shared_data, alloc) ==
    [self EXCEPT
        !.mem = MemCpy(self.mem, self.key_, shared_len, non_shared_data),
        !.key_size_ = shared_len + Len(non_shared_data)]

\* TrimAppend that does not copy the kept bytes of a pinned key into buf_
TrimAppend_PinnedNotCopied(self, shared_len, non_shared_data, alloc) ==
    LET total_size == shared_len + Len(non_shared_data)
        kept == MemRead(self.mem, self.key_, 0, shared_len)
        grown ==
            IF IsKeyPinned(self)
            THEN EnlargeBufferIfNeeded(self, total_size, alloc)
            ELSE IF total_size > self.buf_size_
            THEN LET p == MemCpy([self.mem EXCEPT
                                     ![alloc.addr] = Rep(alloc.fill, total_size)],
                                 alloc.addr, 0, kept)
                 IN  [self EXCEPT
                         !.mem = IF self.buf_ # "space_"
                                 THEN [p EXCEPT ![self.buf_] = <<>>] ELSE p,
                         !.buf_ = alloc.addr, !.buf_size_ = total_size]
            ELSE self
    IN  [grown EXCEPT
            !.mem = MemCpy(grown.mem, grown.buf_, shared_len, non_shared_data),
            !.key_ = grown.buf_, !.key_size_ = total_size]

TrimAppend(self, shared_len, non_shared_data, alloc) ==
    LET total_size == shared_len + Len(non_shared_data)
        kept == MemRead(self.mem, self.key_, 0, shared_len)
        grown ==
            IF IsKeyPinned(self)
            THEN LET e == EnlargeBufferIfNeeded(self, total_size, alloc) IN
                 [e EXCEPT !.mem = MemCpy(e.mem, e.buf_, 0, kept)]
            ELSE IF total_size > self.buf_size_
            THEN LET p == MemCpy([self.mem EXCEPT
                                     ![alloc.addr] = Rep(alloc.fill, total_size)],
                                 alloc.addr, 0, kept)
                 IN  [self EXCEPT
                         !.mem = IF self.buf_ # "space_"
                                 THEN [p EXCEPT ![self.buf_] = <<>>] ELSE p,
                         !.buf_ = alloc.addr, !.buf_size_ = total_size]
            ELSE self
    IN  [grown EXCEPT
            !.mem = MemCpy(grown.mem, grown.buf_, shared_len, non_shared_data),
            !.key_ = grown.buf_, !.key_size_ = total_size]

\* the parts appended for one slice, and the new value of *ts_added
MaybeAddKeyPartsWithTimestamp(slice_data, slice_sz, add_timestamp, left_sz, min_timestamp, key_parts, ts_added) ==
    IF add_timestamp /\ ~ts_added
    THEN [key_parts |-> key_parts \o <<SubSeq(slice_data, 1, left_sz),
                                       min_timestamp,
                                       SubSeq(slice_data, left_sz + 1, slice_sz)>>,
          ts_added |-> TRUE]
    ELSE [key_parts |-> Append(key_parts, SubSeq(slice_data, 1, slice_sz)),
          ts_added |-> ts_added]

\* Slice(SliceParts, &buf): the parts concatenated
RECURSIVE Concat(_)
Concat(parts) ==
    IF parts = <<>> THEN <<>> ELSE Head(parts) \o Concat(Tail(parts))

\* TrimAppendWithTimestamp taking the retained footer bytes from where the
\* old timestamp starts (key_ + sharable_user_key_len)
TrimAppendWithTimestamp_FooterAtTs(self, shared_len, non_shared_data, ts_sz, alloc) ==
    LET kTsMin == Rep(0, ts_sz)
        non_shared_len == Len(non_shared_data)
        key_parts_with_ts ==
            IF IsUserKey(self)
            THEN <<MemRead(self.mem, self.key_, 0, shared_len),
                   non_shared_data, kTsMin>>
            ELSE LET user_key_len == self.key_size_ - kNumInternalBytes
                     sharable_user_key_len == user_key_len - ts_sz
                     shared_user_key_len == Min(shared_len, sharable_user_key_len)
                     shared_internal_bytes_len == shared_len - shared_user_key_len
                     p1 == MaybeAddKeyPartsWithTimestamp(
                               MemRead(self.mem, self.key_, 0, shared_user_key_len),
                               shared_user_key_len,
                               shared_internal_bytes_len + non_shared_len
                                   < kNumInternalBytes,
                               shared_len + non_shared_len - kNumInternalBytes,
                               kTsMin, <<>>, FALSE)
                     p2 == MaybeAddKeyPartsWithTimestamp(
                               MemRead(self.mem, self.key_, sharable_user_key_len,
                                       shared_internal_bytes_len),
                               shared_internal_bytes_len,
                               non_shared_len < kNumInternalBytes,
                               shared_internal_bytes_len + non_shared_len
                                   - kNumInternalBytes,
                               kTsMin, p1.key_parts, p1.ts_added)
                     p3 == MaybeAddKeyPartsWithTimestamp(
                               non_shared_data, non_shared_len,
                               non_shared_len >= kNumInternalBytes,
                               non_shared_len - kNumInternalBytes,
                               kTsMin, p2.key_parts, p2.ts_added)
                 IN  p3.key_parts
    IN  SetKey(self, Concat(key_parts_with_ts), TRUE, alloc)

TrimAppendWithTimestamp(self, shared_len, non_shared_data, ts_sz, alloc) ==
    LET kTsMin == Rep(0, ts_sz)
        non_shared_len == Len(non_shared_data)
        key_parts_with_ts ==
            IF IsUserKey(self)
            THEN <<MemRead(self.mem, self.key_, 0, shared_len),
                   non_shared_data, kTsMin>>
            ELSE LET user_key_len == self.key_size_ - kNumInternalBytes
                     sharable_user_key_len == user_key_len - ts_sz
                     shared_user_key_len == Min(shared_len, sharable_user_key_len)
                     shared_internal_bytes_len == shared_len - shared_user_key_len
                     p1 == MaybeAddKeyPartsWithTimestamp(
                               MemRead(self.mem, self.key_, 0, shared_user_key_len),
                               shared_user_key_len,
                               shared_internal_bytes_len + non_shared_len
                                   < kNumInternalBytes,
                               shared_len + non_shared_len - kNumInternalBytes,
                               kTsMin, <<>>, FALSE)
                     p2 == MaybeAddKeyPartsWithTimestamp(
                               MemRead(self.mem, self.key_, user_key_len,
                                       shared_internal_bytes_len),
                               shared_internal_bytes_len,
                               non_shared_len < kNumInternalBytes,
                               shared_internal_bytes_len + non_shared_len
                                   - kNumInternalBytes,
                               kTsMin, p1.key_parts, p1.ts_added)
                     p3 == MaybeAddKeyPartsWithTimestamp(
                               non_shared_data, non_shared_len,
                               non_shared_len >= kNumInternalBytes,
                               non_shared_len - kNumInternalBytes,
                               kTsMin, p2.key_parts, p2.ts_added)
                 IN  p3.key_parts
    IN  SetKey(self, Concat(key_parts_with_ts), TRUE, alloc)

\* UpdateInternalKey writing the timestamp one byte too early
UpdateInternalKey_TsOffByOne(self, seq, t, ts) ==
    LET m1 == IF ts.has
              THEN MemCpy(self.mem, self.buf_,
                          self.key_size_ - kNumInternalBytes - Len(ts.data) - 1,
                          ts.data)
              ELSE self.mem
        newval == OrByte(Shl8(seq), t)
    IN  [self EXCEPT
            !.mem = MemCpy(m1, self.buf_, self.key_size_ - kNumInternalBytes,
                           EncodeFixed64(newval))]

\* ts = [has |-> FALSE] for nullptr, [has |-> TRUE, data |-> bytes] otherwise
UpdateInternalKey(self, seq, t, ts) ==
    LET m1 == IF ts.has
              THEN MemCpy(self.mem, self.buf_,
                          self.key_size_ - kNumInternalBytes - Len(ts.data),
                          ts.data)
              ELSE self.mem
        newval == OrByte(Shl8(seq), t)
    IN  [self EXCEPT
            !.mem = MemCpy(m1, self.buf_, self.key_size_ - kNumInternalBytes,
                           EncodeFixed64(newval))]

\* Reserve(size): EnlargeBufferIfNeeded(size); key_size_ = size
Reserve(self, size, alloc) ==
    [EnlargeBufferIfNeeded(self, size, alloc) EXCEPT !.key_size_ = size]

\* the body of OwnKey() below its assert(IsKeyPinned() == true); on a key
\* that is not pinned memcpy(buf_, buf_, key_size_) leaves the bytes as they are
OwnKey(self, alloc) ==
    LET r == Reserve(self, self.key_size_, alloc) IN
    [r EXCEPT !.mem = MemCpy(r.mem, r.buf_, 0,
                             MemRead(self.mem, self.key_, 0, self.key_size_)),
              !.key_ = r.buf_]

\* Clear(): key_size_ = 0
Clear(self) == [self EXCEPT !.key_size_ = 0]

\* util/coding.h: the varint32 bytes of v, seven bits a byte, low bits first
RECURSIVE EncodeVarint32(_)
EncodeVarint32(v) ==
    IF v < 128 THEN <<v>> ELSE <<128 + (v % 128)>> \o EncodeVarint32(v \div 128)

VarintLength(v) == Len(EncodeVarint32(v))

\* EncodeLengthPrefixedKey(key): key_size_ is not assigned
EncodeLengthPrefixedKey(self, key, alloc) ==
    LET sz == Len(key)
        e == EnlargeBufferIfNeeded(self, sz + VarintLength(sz), alloc)
        m1 == MemCpy(e.mem, e.buf_, 0, EncodeVarint32(sz))
    IN  [e EXCEPT !.mem = MemCpy(m1, e.buf_, VarintLength(sz), key),
                  !.key_ = e.buf_, !.is_user_key_ = TRUE]

(***************************************************************************)
(* Inputs of the calls                                                     *)
(***************************************************************************)
UserKeyBytes == {97, 200}
RawBytes == {1, 128}

\* all byte strings over S of length 0..n
BytesUpTo(S, n) == UNION {[1..k -> S] : k \in 0..n}

FmtUserKeys == BytesUpTo(UserKeyBytes, MaxUserKeyLen)

CmpUserKeys ==
    BytesUpTo(UserKeyBytes, 1) \cup {Rep(97, n) : n \in 2..MaxCmpKeyLen}

\* sequence numbers up to kMaxSequenceNumber
SeqSamples ==
    {U64Small(0), U64Small(1), U64Small(255), U64Small(256), <<0, 1, 0, 0>>,
     <<65534, 65535, 65535, 255>>, kMaxSequenceNumber}

CmpSeqs == {U64Small(0), U64Small(1), kMaxSequenceNumber}
CmpTags == {kTypeValue, kTypeRangeDeletion}
PairTags == {kTypeDeletion, kTypeValue, kTypeRangeDeletion, kTypeMaxValid}

\* override values: disabled, valid sequence numbers, and 2^56 (not one)
GlobalSeqnos ==
    {kDisableGlobalSequenceNumber, U64Small(0), U64Small(7),
     kMaxSequenceNumber, <<0, 0, 0, 256>>}

CmpKeys ==
    {AppendInternalKey(<<>>, u, s, t) : u \in CmpUserKeys, s \in CmpSeqs,
                                        t \in CmpTags}

\* byte strings of at least eight bytes with any byte as the tag
CorruptKeys ==
    {u \o EncodeFixed64(OrByte(Shl8(s), t)) : u \in CmpUserKeys,
                                             s \in SeqSamples, t \in Byte}

EncodeParseInputs ==
    [op : {"EncodeParse"}, user_key : FmtUserKeys, sequence : SeqSamples,
     type : ExtendedTags, ndebug : BOOLEAN]

ParseInputs ==
    [op : {"Parse"}, key : BytesUpTo(RawBytes, MaxRawLen) \cup CorruptKeys,
     ndebug : BOOLEAN]

Compare3Inputs ==
    [op : {"Compare3"}, a : CmpKeys, b : CmpKeys, c : CmpKeys,
     ucmp : UserComparators]

Compare2Inputs ==
    [op : {"Compare2"}, ua : CmpUserKeys, ub : CmpUserKeys,
     sa : SeqSamples, sb : SeqSamples, ta : PairTags, tb : PairTags,
     ucmp : UserComparators]

CompareGlobalInputs ==
    [op : {"CompareGlobal"}, a : CmpKeys, b : CmpKeys,
     ga : GlobalSeqnos, gb : GlobalSeqnos, ucmp : UserComparators,
     ndebug : BOOLEAN]

SerializeEndKeyInputs ==
    [op : {"SerializeEndKey"}, sk : CmpUserKeys, ek : FmtUserKeys,
     sn : CmpSeqs, s : SeqSamples, t : ExtendedTags, ucmp : UserComparators]

\* sequence numbers of real keys: 0 .. 2^56 - 2
RealSeqs == SeqSamples \ {kMaxSequenceNumber}

SentinelsInputs ==
    [op : {"Sentinels"}, u : FmtUserKeys, s : RealSeqs, t : ExtendedTags,
     seek : ValueTypesForSeek, ucmp : UserComparators]

ClassifyInputs == [op : {"Classify"}, t : Byte]

\* tombstones over user keys that end in a timestamp of w bytes, with a new
\* timestamp of w bytes
TombstoneTsInputs ==
    {[op |-> "TombstoneTs", sk |-> p \o Rep(7, w), ek |-> q \o Rep(9, w),
      sn |-> sn, ts |-> [i \in 1..w |-> 49 + i]] :
         p \in {<<>>, <<97>>}, q \in {<<>>, <<200>>}, sn \in CmpSeqs,
         w \in 1..MaxTsWidth}

(***************************************************************************)
(* The calls                                                               *)
(***************************************************************************)
\* no IterKey is constructed in the specification of the free functions
NoIterKey ==
    /\ buf_ = 0 /\ key_ = 0 /\ key_size_ = 0 /\ buf_size_ = 0
    /\ is_user_key_ = TRUE /\ mem = <<>> /\ call = [op |-> "none"] /\ nops = 0

\* no InternalKey object either
NoInternalKey == rep_ = <<>>

Init ==
    /\ pc = "call"
    /\ out = [status |-> "none"]
    /\ \/ in \in EncodeParseInputs
       \/ in \in ParseInputs
       \/ in \in Compare3Inputs
       \/ in \in Compare2Inputs
       \/ in \in CompareGlobalInputs
       \/ in \in SerializeEndKeyInputs
       \/ in \in SentinelsInputs
       \/ in \in ClassifyInputs
       \/ in \in TombstoneTsInputs
    /\ NoIterKey
    /\ NoInternalKey

Return(v) ==
    pc' = "done" /\ out' = v /\ UNCHANGED in /\ UNCHANGED iterVars
        /\ UNCHANGED rep_

\* ParseInternalKey(AppendInternalKey(user_key, sequence, type))
CallEncodeParse ==
    /\ pc = "call" /\ in.op = "EncodeParse"
    /\ LET key == AppendInternalKey(<<>>, in.user_key, in.sequence, in.type) IN
       Return([key |-> key, parsed |-> ParseInternalKey(key, in.ndebug)])

\* ParseInternalKey of raw bytes
CallParse ==
    /\ pc = "call" /\ in.op = "Parse"
    /\ Return(ParseInternalKey(in.key, in.ndebug))

\* Compare on each pair of three encoded keys
CallCompare3 ==
    /\ pc = "call" /\ in.op = "Compare3"
    /\ Return([ab |-> Compare(in.ucmp, in.a, in.b),
               ba |-> Compare(in.ucmp, in.b, in.a),
               bc |-> Compare(in.ucmp, in.b, in.c),
               ac |-> Compare(in.ucmp, in.a, in.c)])

\* Compare and CompareKeySeq of encode(ua, sa, ta) and encode(ub, sb, tb)
CallCompare2 ==
    /\ pc = "call" /\ in.op = "Compare2"
    /\ LET a == AppendInternalKey(<<>>, in.ua, in.sa, in.ta)
           b == AppendInternalKey(<<>>, in.ub, in.sb, in.tb)
       IN  Return([a |-> a, b |-> b,
                   cmp |-> Compare(in.ucmp, a, b),
                   keyseq |-> CompareKeySeq(in.ucmp, a, b),
                   keyseq_parsed |->
                       CompareKeySeqParsed(
                           in.ucmp,
                           [user_key |-> in.ua, sequence |-> in.sa,
                            type |-> in.ta],
                           b)])

\* Compare(a, a_global_seqno, b, b_global_seqno)
CallCompareGlobal ==
    /\ pc = "call" /\ in.op = "CompareGlobal"
    /\ Return(CompareGlobalSeqno(in.ucmp, in.a, in.ga, in.b, in.gb, in.ndebug))

\* RangeTombstone(sk, ek, sn).SerializeEndKey() against the key (ek, s, t)
CallSerializeEndKey ==
    /\ pc = "call" /\ in.op = "SerializeEndKey"
    /\ LET tomb == RangeTombstone(in.sk, in.ek, in.sn)
           k == AppendInternalKey(<<>>, in.ek, in.s, in.t)
       IN  Return([start |-> SerializeKey(tomb), end |-> SerializeEndKey(tomb),
                   k |-> k,
                   r |-> Compare(in.ucmp, SerializeEndKey(tomb), k)])

\* SetMinPossibleForUserKey(u) and SetMaxPossibleForUserKey(u), each on a new
\* InternalKey, against the key (u, s, t)
CallSentinels ==
    /\ pc = "call" /\ in.op = "Sentinels"
    /\ LET min == SetMinPossibleForUserKey(InternalKey, in.u, in.seek)
           max == SetMaxPossibleForUserKey(InternalKey, in.u)
           k == AppendInternalKey(<<>>, in.u, in.s, in.t)
       IN  Return([min |-> min, max |-> max, k |-> k,
                   lo |-> Compare(in.ucmp, min, k),
                   hi |-> Compare(in.ucmp, k, max)])

\* IsValueType(t) and IsExtendedValueType(t)
CallClassify ==
    /\ pc = "call" /\ in.op = "Classify"
    /\ Return([value |-> IsValueType(in.t),
               extended |-> IsExtendedValueType(in.t)])

\* RangeTombstone(sk, ek, sn, ts).SerializeKey() and .SerializeEndKey()
CallTombstoneTs ==
    /\ pc = "call" /\ in.op = "TombstoneTs"
    /\ LET tomb == RangeTombstoneWithTs(in.sk, in.ek, in.sn, in.ts) IN
       Return([start |-> SerializeKey(tomb), end |-> SerializeEndKey(tomb)])

Next ==
    \/ CallEncodeParse
    \/ CallParse
    \/ CallCompare3
    \/ CallCompare2
    \/ CallCompareGlobal
    \/ CallSerializeEndKey
    \/ CallSentinels
    \/ CallClassify
    \/ CallTombstoneTs

Spec == Init /\ [][Next]_vars

(***************************************************************************)
(* IterKey as a state machine: one action per public operation             *)
(***************************************************************************)
\* the bytes first, first + 1, ..., first + n - 1
Run(first, n) == [i \in 1..n |-> first + i - 1]

\* keys handed to the set operations and rebuilt by TrimAppend; each of the
\* first three is a prefix of the next
IterKeyInputs ==
    {<<>>, Run(1, kNumInternalBytes + 5), Run(1, kInlineSize),
     Run(1, kInlineSize + 2), Run(1, 5) \o Run(201, kNumInternalBytes)}

\* non-shared bytes handed to TrimAppendWithTimestamp
Suffixes == {Run(101, n) : n \in {0, 1, 4, kNumInternalBytes, kNumInternalBytes + 1}}

Allocs == [addr : HeapAddrs, fill : GarbageBytes]

\* what new char[size] may return when the buffer holds fewer than size bytes;
\* nothing is allocated otherwise
AllocsFor(size) ==
    IF size > buf_size_ THEN Allocs ELSE {[addr |-> "heap1", fill |-> 0]}

\* sequence numbers handed to UpdateInternalKey; 2^56 and 2^64 - 1 are
\* uint64_t values that are no sequence numbers
UpdateSeqs ==
    {U64Small(0), U64Small(258), kMaxSequenceNumber, <<0, 0, 0, 256>>,
     kDisableGlobalSequenceNumber}
UpdateTags == {kTypeValue, kTypeMaxValid, 255}
UpdateTs ==
    {[has |-> FALSE, data |-> <<>>]}
        \cup {[has |-> TRUE, data |-> Run(150, n)] : n \in 0..MaxTsSz}

RECURSIVE CommonPrefixLen(_, _)
CommonPrefixLen(a, b) ==
    IF a = <<>> \/ b = <<>> \/ Head(a) # Head(b) THEN 0
    ELSE 1 + CommonPrefixLen(Tail(a), Tail(b))

Self ==
    [buf_ |-> buf_, key_ |-> key_, key_size_ |-> key_size_,
     buf_size_ |-> buf_size_, is_user_key_ |-> is_user_key_, mem |-> mem]

Becomes(new) ==
    /\ buf_' = new.buf_ /\ key_' = new.key_ /\ key_size_' = new.key_size_
    /\ buf_size_' = new.buf_size_ /\ is_user_key_' = new.is_user_key_
    /\ mem' = new.mem
    /\ nops' = nops + 1
    /\ UNCHANGED <<in, out, rep_>>

Constructed ==
    /\ in = [op |-> "none"] /\ out = [status |-> "none"]
    /\ NoInternalKey
    /\ \E fill \in GarbageBytes :
           /\ buf_ = IterKey(fill).buf_ /\ key_ = IterKey(fill).key_
           /\ key_size_ = IterKey(fill).key_size_
           /\ buf_size_ = IterKey(fill).buf_size_
           /\ is_user_key_ = IterKey(fill).is_user_key_
           /\ mem = IterKey(fill).mem
    /\ call = [op |-> "IterKey"]
    /\ nops = 0

\* A set operation runs on a new IterKey ("new" -> "held"), and at any time
\* in the delta-decoding runs ("iter").
CanSet ==
    \/ pc = "new" /\ pc' = "held"
    \/ pc = "iter" /\ nops < MaxOps /\ pc' = pc

DoSetKey ==
    /\ CanSet
    /\ \E key \in IterKeyInputs, copy \in BOOLEAN :
       \E alloc \in AllocsFor(IF copy THEN Len(key) ELSE 0) :
           /\ Becomes(SetKey(Self, key, copy, alloc))
           /\ call' = [op |-> "SetKey", key |-> key, copy |-> copy]

DoSetUserKey ==
    /\ CanSet
    /\ \E key \in IterKeyInputs, copy \in BOOLEAN :
       \E alloc \in AllocsFor(IF copy THEN Len(key) ELSE 0) :
           /\ Becomes(SetUserKey(Self, key, copy, alloc))
           /\ call' = [op |-> "SetUserKey", key |-> key, copy |-> copy]

DoSetInternalKey ==
    /\ CanSet
    /\ \E key \in IterKeyInputs, copy \in BOOLEAN :
       \E alloc \in AllocsFor(IF copy THEN Len(key) ELSE 0) :
           /\ Becomes(SetInternalKey(Self, key, copy, alloc))
           /\ call' = [op |-> "SetInternalKey", key |-> key, copy |-> copy]

\* the delta-decode step towards the key target: TrimAppend(shared_len,
\* target[shared_len..]) with shared_len within the common prefix
DoTrimAppend ==
    /\ pc = "iter" /\ nops < MaxOps /\ pc' = pc
    /\ \E target \in IterKeyInputs :
       \E shared_len \in 0..CommonPrefixLen(GetKey(Self), target),
          alloc \in AllocsFor(Len(target)) :
           /\ shared_len <= key_size_
           \* new char[] while the old buffer is still allocated
           /\ (~IsKeyPinned(Self) /\ Len(target) > buf_size_)
                  => alloc.addr # buf_
           /\ Becomes(TrimAppend(Self, shared_len,
                                 SubSeq(target, shared_len + 1, Len(target)),
                                 alloc))
           /\ call' = [op |-> "TrimAppend", before |-> Self,
                       shared_len |-> shared_len, target |-> target]

DoTrimAppendWithTimestamp ==
    /\ pc = "held" /\ pc' = "done"
    /\ \E ts_sz \in 0..MaxTsSz, non_shared_data \in Suffixes :
       \E shared_len \in 0..(key_size_ - ts_sz),
          alloc \in AllocsFor(key_size_ + Len(non_shared_data)) :
           /\ ~is_user_key_ =>
                  /\ key_size_ >= kNumInternalBytes + ts_sz
                  /\ shared_len + Len(non_shared_data) >= kNumInternalBytes
           /\ Becomes(TrimAppendWithTimestamp(Self, shared_len,
                                              non_shared_data, ts_sz, alloc))
           /\ call' = [op |-> "TrimAppendWithTimestamp", before |-> Self,
                       shared_len |-> shared_len,
                       non_shared_data |-> non_shared_data, ts_sz |-> ts_sz]

DoUpdateInternalKey ==
    /\ pc = "held" /\ pc' = "done"
    /\ ~IsKeyPinned(Self)
    /\ \E seq \in UpdateSeqs, t \in UpdateTags, ts \in UpdateTs :
           /\ key_size_ >= kNumInternalBytes + Len(ts.data)
           /\ Becomes(UpdateInternalKey(Self, seq, t, ts))
           /\ call' = [op |-> "UpdateInternalKey", before |-> Self,
                       seq |-> seq, t |-> t, ts |-> ts]

\* Delta decoding: any run of up to MaxOps set and TrimAppend operations
InitTrimAppend == pc = "iter" /\ Constructed

NextTrimAppend ==
    \/ DoSetKey
    \/ DoSetUserKey
    \/ DoSetInternalKey
    \/ DoTrimAppend

SpecTrimAppend == InitTrimAppend /\ [][NextTrimAppend]_vars

\* A new IterKey, one set operation, then one rewrite of the held key
InitIterKey == pc = "new" /\ Constructed

NextIterKey ==
    \/ DoSetKey
    \/ DoSetUserKey
    \/ DoSetInternalKey
    \/ DoTrimAppendWithTimestamp
    \/ DoUpdateInternalKey

SpecIterKey == InitIterKey /\ [][NextIterKey]_vars

\* Any run of up to MaxOps operations on one IterKey, on few inputs.  A failed
\* assert ends the run ("aborted").
OpsKeys == {Run(1, kNumInternalBytes + 5), Run(1, kInlineSize + 2)}
OpsTargets == OpsKeys \cup {Run(1, 5) \o Run(201, kNumInternalBytes)}
OpsSeq == U64Small(258)
SetOps == {"SetKey", "SetUserKey", "SetInternalKey"}

CanOp == pc = "seq" /\ nops < MaxOps

\* the operation returns, leaving the IterKey new
Returns(new, c) ==
    /\ pc' = pc
    /\ Becomes(new)
    /\ call' = c @@ [status |-> "OK", before |-> Self]

\* an assert of the operation fails: the process stops, the IterKey as it was
Aborts(c) ==
    /\ pc' = "aborted"
    /\ nops' = nops + 1
    /\ call' = c @@ [status |-> "AssertionFailure", before |-> Self]
    /\ UNCHANGED <<in, out, rep_, buf_, key_, key_size_, buf_size_,
                   is_user_key_, mem>>

OpSetKey ==
    /\ CanOp
    /\ \E key \in OpsKeys, copy \in BOOLEAN :
       \E alloc \in AllocsFor(IF copy THEN Len(key) ELSE 0) :
           Returns(SetKey(Self, key, copy, alloc),
                   [op |-> "SetKey", key |-> key, copy |-> copy])

OpSetUserKey ==
    /\ CanOp
    /\ \E key \in OpsKeys, copy \in BOOLEAN :
       \E alloc \in AllocsFor(IF copy THEN Len(key) ELSE 0) :
           Returns(SetUserKey(Self, key, copy, alloc),
                   [op |-> "SetUserKey", key |-> key, copy |-> copy])

OpSetInternalKey ==
    /\ CanOp
    /\ \E key \in OpsKeys, copy \in BOOLEAN :
       \E alloc \in AllocsFor(IF copy THEN Len(key) ELSE 0) :
           Returns(SetInternalKey(Self, key, copy, alloc),
                   [op |-> "SetInternalKey", key |-> key, copy |-> copy])

OpTrimAppend ==
    /\ CanOp
    /\ \E target \in OpsTargets :
       \E shared_len \in {0, CommonPrefixLen(GetKey(Self), target)},
          alloc \in AllocsFor(Len(target)) :
           /\ (~IsKeyPinned(Self) /\ Len(target) > buf_size_)
                  => alloc.addr # buf_
           /\ Returns(TrimAppend(Self, shared_len,
                                 SubSeq(target, shared_len + 1, Len(target)),
                                 alloc),
                      [op |-> "TrimAppend", shared_len |-> shared_len,
                       target |-> target])

OpTrimAppendWithTimestamp ==
    /\ CanOp
    /\ \E ts_sz \in 0..MaxTsSz :
       \E shared_len \in {0, key_size_ - ts_sz},
          alloc \in AllocsFor(key_size_ + kNumInternalBytes + 1) :
           /\ shared_len >= 0
           /\ ~is_user_key_ => key_size_ >= kNumInternalBytes + ts_sz
           /\ Returns(TrimAppendWithTimestamp(
                          Self, shared_len, Run(101, kNumInternalBytes + 1),
                          ts_sz, alloc),
                      [op |-> "TrimAppendWithTimestamp",
                       shared_len |-> shared_len, ts_sz |-> ts_sz])

\* OwnKey(): assert(IsKeyPinned() == true), then the copy
OpOwnKey ==
    /\ CanOp
    /\ \E ndebug \in BOOLEAN, alloc \in AllocsFor(key_size_) :
       LET c == [op |-> "OwnKey", ndebug |-> ndebug] IN
       IF ~ndebug /\ ~IsKeyPinned(Self)
       THEN Aborts(c)
       ELSE Returns(OwnKey(Self, alloc), c)

\* UpdateInternalKey(seq, t, ts): assert(!IsKeyPinned()) and the size asserts,
\* then the writes into buf_.  Without the asserts a key of more than
\* buf_size_ bytes puts the footer past the end of space_, on the member
\* that follows it (is_user_key_), which then holds any value.
OpUpdateInternalKey ==
    /\ CanOp
    /\ \E ndebug \in BOOLEAN, ts \in UpdateTs :
       LET c == [op |-> "UpdateInternalKey", ndebug |-> ndebug, ts |-> ts]
           new == UpdateInternalKey(Self, OpsSeq, kTypeValue, ts)
       IN  /\ key_size_ >= kNumInternalBytes + Len(ts.data)
           /\ IF ~ndebug /\ IsKeyPinned(Self)
              THEN Aborts(c)
              ELSE \E overrun \in BOOLEAN :
                       /\ key_size_ <= buf_size_ => overrun = is_user_key_
                       /\ Returns([new EXCEPT !.is_user_key_ = overrun], c)

InitIterOps == pc = "seq" /\ Constructed

NextIterOps ==
    \/ OpSetKey
    \/ OpSetUserKey
    \/ OpSetInternalKey
    \/ OpTrimAppend
    \/ OpTrimAppendWithTimestamp
    \/ OpOwnKey
    \/ OpUpdateInternalKey

SpecIterOps == InitIterOps /\ [][NextIterOps]_vars

\* Every public operation.  Reserve and EncodeLengthPrefixedKey can leave
\* key_ and key_size_ naming bytes that are not all inside one block; the
\* operations that use the held key are then undefined.
ReserveSizes == {0, kNumInternalBytes, kInlineSize + 3}
PrefixedKeys == OpsKeys \cup {Run(1, 130)}

KeyInBlock == key_size_ <= Len(mem[key_])

OpReserve ==
    /\ CanOp
    /\ \E sz \in ReserveSizes :
       \E alloc \in AllocsFor(sz) :
           Returns(Reserve(Self, sz, alloc), [op |-> "Reserve", size |-> sz])

OpClear ==
    /\ CanOp
    /\ Returns(Clear(Self), [op |-> "Clear"])

OpEncodeLengthPrefixedKey ==
    /\ CanOp
    /\ \E key \in PrefixedKeys :
       \E alloc \in AllocsFor(Len(key) + VarintLength(Len(key))) :
           Returns(EncodeLengthPrefixedKey(Self, key, alloc),
                   [op |-> "EncodeLengthPrefixedKey", key |-> key])

\* an operation on a held key that reaches outside its block
OpUndefined ==
    /\ CanOp
    /\ ~KeyInBlock
    /\ pc' = "undefined"
    /\ nops' = nops + 1
    /\ call' = [op |-> "undefined", status |-> "undefined", before |-> Self]
    /\ UNCHANGED <<in, out, rep_, buf_, key_, key_size_, buf_size_,
                   is_user_key_, mem>>

NextIterAll ==
    \/ OpSetKey
    \/ OpSetUserKey
    \/ OpSetInternalKey
    \/ KeyInBlock /\ OpTrimAppend
    \/ KeyInBlock /\ OpTrimAppendWithTimestamp
    \/ KeyInBlock /\ OpOwnKey
    \/ KeyInBlock /\ OpUpdateInternalKey
    \/ OpReserve
    \/ OpClear
    \/ OpEncodeLengthPrefixedKey
    \/ OpUndefined

SpecIterAll == InitIterOps /\ [][NextIterAll]_vars

(***************************************************************************)
(* InternalKey as a state machine                                          *)
(***************************************************************************)
KeySeqs == {U64Small(0), <<65534, 65535, 65535, 255>>}

\* bytes handed to DecodeFrom: encoded keys, a single byte, and eight bytes
\* or more that end in a footer with a tag that is not extended
DecodeInputs ==
    CmpKeys \cup {<<1>>}
        \cup {u \o EncodeFixed64(OrByte(Shl8(U64Small(1)), t)) :
                  u \in {<<>>, <<97>>}, t \in {kTypeLogData, 128}}

CanCall == pc = "ikey" /\ nops < MaxOps

\* the operation leaves rep_ = new
Holds(new, c) ==
    /\ rep_' = new
    /\ call' = c
    /\ nops' = nops + 1
    /\ UNCHANGED <<pc, in, out, buf_, key_, key_size_, buf_size_,
                   is_user_key_, mem>>

DoSet ==
    /\ CanCall
    /\ \E u \in CmpUserKeys, s \in KeySeqs, t \in CmpTags :
           Holds(Set(rep_, u, s, t), [op |-> "Set", user_key |-> u])

DoSetFrom ==
    /\ CanCall
    /\ \E u \in CmpUserKeys, s \in KeySeqs, t \in CmpTags :
           Holds(SetFrom(rep_, [user_key |-> u, sequence |-> s, type |-> t]),
                 [op |-> "SetFrom", user_key |-> u])

DoDecodeFrom ==
    /\ CanCall
    /\ \E s \in DecodeInputs :
           Holds(DecodeFrom(rep_, s), [op |-> "DecodeFrom", s |-> s])

DoSetMaxPossibleForUserKey ==
    /\ CanCall
    /\ \E u \in CmpUserKeys :
           Holds(SetMaxPossibleForUserKey(rep_, u),
                 [op |-> "SetMaxPossibleForUserKey", user_key |-> u])

DoSetMinPossibleForUserKey ==
    /\ CanCall
    /\ \E u \in CmpUserKeys, seek \in ValueTypesForSeek :
           Holds(SetMinPossibleForUserKey(rep_, u, seek),
                 [op |-> "SetMinPossibleForUserKey", user_key |-> u])

DoClear ==
    /\ CanCall
    /\ Holds(ClearRep(rep_), [op |-> "Clear"])

\* *rep() = u; ConvertFromUserKey(s, t)
DoConvertFromUserKey ==
    /\ CanCall
    /\ \E u \in CmpUserKeys, s \in KeySeqs, t \in CmpTags :
           Holds(ConvertFromUserKey(u, s, t),
                 [op |-> "ConvertFromUserKey", user_key |-> u])

InitInternalKey ==
    /\ pc = "ikey"
    /\ in = [op |-> "none"] /\ out = [status |-> "none"]
    /\ NoIterKey
    /\ rep_ = InternalKey

NextInternalKey ==
    \/ DoSet
    \/ DoSetFrom
    \/ DoDecodeFrom
    \/ DoSetMaxPossibleForUserKey
    \/ DoSetMinPossibleForUserKey
    \/ DoClear
    \/ DoConvertFromUserKey

SpecInternalKey == InitInternalKey /\ [][NextInternalKey]_vars

Done(op) == pc = "done" /\ in.op = op

Sign(r) == IF r < 0 THEN -1 ELSE IF r > 0 THEN 1 ELSE 0

(***************************************************************************)
(* Properties                                                              *)
(***************************************************************************)
\* C1: parsing the encoding of (u, seq, t), seq <= kMaxSequenceNumber and t an
\* extended tag, returns OK with exactly user_key = u, sequence = seq, type = t.
C1_RoundTrip ==
    Done("EncodeParse") =>
        /\ Len(out.key) = Len(in.user_key) + kNumInternalBytes
        /\ out.parsed.status = "OK"
        /\ out.parsed.user_key = in.user_key
        /\ out.parsed.sequence = in.sequence
        /\ out.parsed.type = in.type

C1_Witness ==
    /\ Done("EncodeParse")
    /\ in.user_key = <<97, 200>>
    /\ in.sequence = kMaxSequenceNumber
    /\ in.type = kTypeMaxValid
    /\ out.parsed.status = "OK"
    /\ out.parsed.sequence = kMaxSequenceNumber

\* C2: Compare is a total order on encoded keys: antisymmetric in sign,
\* transitive, zero exactly when the user keys are equal and the footers are
\* identical, and keys of equal user key and sequence go by descending tag.
C2_TotalOrder ==
    Done("Compare3") =>
        LET ua == ExtractUserKey(in.a)
            ub == ExtractUserKey(in.b)
            sameUser == UserCompare(in.ucmp, ua, ub) = 0
        IN  /\ Sign(out.ab) = -Sign(out.ba)
            /\ (out.ab < 0 /\ out.bc < 0) => out.ac < 0
            /\ (out.ab = 0) <=> (sameUser /\ FooterBytes(in.a) = FooterBytes(in.b))
            /\ ( /\ sameUser
                 /\ GetInternalKeySeqno(in.a) = GetInternalKeySeqno(in.b)
                 /\ ExtractValueType(in.a) > ExtractValueType(in.b) )
               => out.ab < 0

C2_Witness ==
    /\ Done("Compare3")
    /\ ExtractUserKey(in.a) = ExtractUserKey(in.b)
    /\ GetInternalKeySeqno(in.a) = GetInternalKeySeqno(in.b)
    /\ ExtractValueType(in.a) > ExtractValueType(in.b)
    /\ out.ab < 0 /\ out.bc < 0 /\ out.ac < 0 /\ out.ba > 0

\* C3: for one user key and one tag and seq1 # seq2, Compare(encode(k, seq1, t),
\* encode(k, seq2, t)) is negative if and only if seq1 > seq2.
C3_DescendingSequence ==
    (Done("Compare2") /\ in.ua = in.ub /\ in.ta = in.tb /\ in.sa # in.sb) =>
        ((out.cmp < 0) <=> U64Less(in.sb, in.sa))

C3_Witness ==
    /\ Done("Compare2")
    /\ in.ua = in.ub /\ in.ta = in.tb
    /\ in.sa = kMaxSequenceNumber /\ in.sb = U64Small(256)
    /\ out.cmp < 0

\* C4: when ua < ub under the user comparator, Compare, CompareKeySeq and the
\* global-sequence-number Compare are negative whatever the sequence numbers,
\* tags and override values are.
C4_UserKeyDominates ==
    /\ (Done("Compare2") /\ UserCompare(in.ucmp, in.ua, in.ub) < 0) =>
           (out.cmp < 0 /\ out.keyseq < 0)
    /\ ( /\ Done("CompareGlobal")
         /\ UserCompare(in.ucmp, ExtractUserKey(in.a), ExtractUserKey(in.b)) < 0 )
       => (out.status = "OK" /\ out.r < 0)

C4_Witness ==
    /\ Done("CompareGlobal")
    /\ UserCompare(in.ucmp, ExtractUserKey(in.a), ExtractUserKey(in.b)) < 0
    /\ in.ga = U64Small(0) /\ in.gb = <<0, 0, 0, 256>>
    /\ GetInternalKeySeqno(in.a) = U64Small(0)
    /\ GetInternalKeySeqno(in.b) = kMaxSequenceNumber
    /\ ~in.ndebug
    /\ out.r < 0

\* C5: ParseInternalKey on a byte string of length 0..7 returns Corruption and
\* reads no byte of the input.
C5_ShortKeyCorruption ==
    (Done("Parse") /\ Len(in.key) < kNumInternalBytes) =>
        (out.status = "Corruption" /\ out.reads = {})

C5_Witness ==
    /\ Done("Parse")
    /\ Len(in.key) = kNumInternalBytes - 1
    /\ in.key[1] = 1
    /\ out.status = "Corruption"

\* C6: ParseInternalKey on a byte string of length >= 8 returns Corruption when
\* the tag byte (any of 0..255) is not an extended tag and OK otherwise, and
\* never ends in an assertion failure.
C6_ParseStatus ==
    (Done("Parse") /\ Len(in.key) >= kNumInternalBytes) =>
        /\ out.status \in {"OK", "Corruption"}
        /\ (out.status = "Corruption") <=>
               ~IsExtendedValueType(in.key[Len(in.key) - kNumInternalBytes + 1])

\* C7: the serialized end key of a tombstone sorts strictly before every key
\* (end, s, t) with s in [0, 2^56 - 2] and t an extended tag.
C7_HalfOpenEnd ==
    (Done("SerializeEndKey") /\ U64Less(in.s, kMaxSequenceNumber)) =>
        out.r < 0

C7_Witness ==
    /\ Done("SerializeEndKey")
    /\ in.s = <<65534, 65535, 65535, 255>>
    /\ in.t = kTypeMaxValid
    /\ in.sn = U64Small(0)
    /\ in.ek # <<>>
    /\ out.r < 0

Called(op) == call.op = op

\* the last n bytes of s
LastBytes(s, n) == SubSeq(s, Len(s) - n + 1, Len(s))

\* C8: after each delta-decode step TrimAppend(shared, k[shared..]) with shared
\* within the common prefix of the held key and k, GetKey() is k byte for
\* byte, whether the step stays in the buffer, reallocates, or starts pinned.
C8_DeltaRoundTrip ==
    Called("TrimAppend") =>
        /\ GetKey(Self) = call.target
        /\ Size(Self) = Len(call.target)
        /\ ~IsKeyPinned(Self)

C8_Witness ==
    /\ Called("TrimAppend")
    /\ IsKeyPinned(call.before)
    /\ call.shared_len = kInlineSize
    /\ call.before.buf_ = "space_"
    /\ buf_ \in HeapAddrs
    /\ Len(call.target) > kInlineSize
    /\ GetKey(Self) = call.target

\* the key TrimAppendWithTimestamp is to leave, from the held key, by the
\* statement of the claim
PaddedKey(held, is_user_key, shared_len, suffix, ts_sz) ==
    IF is_user_key
    THEN SubSeq(held, 1, shared_len) \o suffix \o Rep(0, ts_sz)
    ELSE LET U == SubSeq(held, 1, Len(held) - kNumInternalBytes - ts_sz)
             F == LastBytes(held, kNumInternalBytes)
             K == SubSeq(U \o F, 1, shared_len) \o suffix
         IN  SubSeq(K, 1, Len(K) - kNumInternalBytes) \o Rep(0, ts_sz)
                 \o LastBytes(K, kNumInternalBytes)

\* C9: TrimAppendWithTimestamp on a held key U ++ T ++ F leaves
\* K[0 .. |K|-8) ++ zero timestamp ++ K[|K|-8 .. |K|) for
\* K = (U ++ F)[0 .. shared_len) ++ suffix (in user-key mode
\* held[0 .. shared_len) ++ suffix ++ zero timestamp): one timestamp,
\* wherever the split point falls.
C9_TimestampSplice ==
    Called("TrimAppendWithTimestamp") =>
        /\ GetKey(Self) =
               PaddedKey(GetKey(call.before), call.before.is_user_key_,
                         call.shared_len, call.non_shared_data, call.ts_sz)
        /\ Size(Self) =
               call.shared_len + Len(call.non_shared_data) + call.ts_sz
        /\ is_user_key_ = call.before.is_user_key_

\* the split falls strictly inside the retained footer bytes
C9_Witness ==
    /\ Called("TrimAppendWithTimestamp")
    /\ ~call.before.is_user_key_
    /\ GetKey(call.before) = Run(1, kNumInternalBytes + 5)
    /\ call.ts_sz = 1
    /\ call.shared_len = 10
    /\ call.non_shared_data = Run(101, 4)
    /\ GetKey(Self) = <<1, 2, 3, 4, 6, 7, 0, 8, 9, 10, 11, 101, 102, 103, 104>>

\* what UpdateInternalKey leaves alone: the addresses, the sizes, the mode,
\* every other block, and every byte outside the rewritten region
UpdateFrame ==
    LET before == call.before
        first == before.key_size_ - kNumInternalBytes - Len(call.ts.data)
    IN  /\ buf_ = before.buf_
        /\ key_ = before.key_
        /\ key_size_ = before.key_size_
        /\ buf_size_ = before.buf_size_
        /\ is_user_key_ = before.is_user_key_
        /\ \A a \in Addrs : a # buf_ => mem[a] = before.mem[a]
        /\ Len(mem[buf_]) = Len(before.mem[buf_])
        /\ \A i \in 1..Len(mem[buf_]) :
               (i <= first \/ i > key_size_) => mem[buf_][i] = before.mem[buf_][i]
        /\ call.ts.has =>
               SubSeq(mem[buf_], first + 1, first + Len(call.ts.data))
                   = call.ts.data

\* seq mod 2^56
Low56(seq) == [seq EXCEPT ![4] = @ % 256]

\* C10 (as amended): UpdateInternalKey on an owned key of at least 8 (+ |ts|)
\* bytes moves nothing and changes only the last 8 bytes and the |ts| bytes
\* before them; afterwards the tag is t and the sequence is seq mod 2^56,
\* which is seq when seq <= kMaxSequenceNumber.
C10_UpdateInPlace ==
    Called("UpdateInternalKey") =>
        /\ UpdateFrame
        /\ ExtractValueType(GetKey(Self)) = call.t
        /\ GetInternalKeySeqno(GetKey(Self)) = Low56(call.seq)
        /\ U64Leq(call.seq, kMaxSequenceNumber) =>
               GetInternalKeySeqno(GetKey(Self)) = call.seq

C10_Witness ==
    /\ Called("UpdateInternalKey")
    /\ buf_ \in HeapAddrs
    /\ call.ts.has /\ Len(call.ts.data) = 1
    /\ call.seq = kMaxSequenceNumber
    /\ call.t = kTypeMaxValid
    /\ GetInternalKeySeqno(GetKey(Self)) = kMaxSequenceNumber
    /\ GetKey(Self) # GetKey(call.before)

\* C10 (as stated): ... and afterwards the footer decodes to (seq, t), for
\* every uint64_t seq.
C10_FooterDecodesToSeq ==
    Called("UpdateInternalKey") =>
        /\ UpdateFrame
        /\ ExtractValueType(GetKey(Self)) = call.t
        /\ GetInternalKeySeqno(GetKey(Self)) = call.seq

\* C11: OwnKey() on a pinned key leaves it owned with the same bytes and
\* size; on a key that is already owned it is a no-op (bytes, size, buffer
\* and mode unchanged) and not an error or invariant violation.
C11_OwnKey ==
    Called("OwnKey") =>
        /\ call.status = "OK"
        /\ ~IsKeyPinned(Self)
        /\ GetKey(Self) = GetKey(call.before)
        /\ Size(Self) = Size(call.before)
        /\ ~IsKeyPinned(call.before) =>
               /\ buf_ = call.before.buf_ /\ buf_size_ = call.before.buf_size_
               /\ is_user_key_ = call.before.is_user_key_
               /\ mem = call.before.mem

\* C12: no operation of the IterKey writes the caller's bytes that a pinned
\* key points to (they change only when the caller hands in other bytes with
\* copy = false): TrimAppend on a pinned key copies the kept bytes into buf_
\* and writes only there, and UpdateInternalKey on a pinned key fails
\* assert(!IsKeyPinned()) with nothing written.
C12_ExternalNeverWritten ==
    /\ (call.op # "IterKey" /\ ~(call.op \in SetOps /\ ~call.copy)) =>
           mem["ext"] = call.before.mem["ext"]
    /\ (Called("TrimAppend") /\ IsKeyPinned(call.before)) =>
           /\ ~IsKeyPinned(Self)
           /\ GetKey(Self) = call.target
    /\ (Called("UpdateInternalKey") /\ IsKeyPinned(call.before)
            /\ ~call.ndebug) =>
           /\ call.status = "AssertionFailure"
           /\ Self = call.before

C12_Witness ==
    /\ Called("TrimAppend") /\ IsKeyPinned(call.before)
    /\ call.shared_len = kNumInternalBytes + 5
    /\ call.before.mem["ext"] = Run(1, kNumInternalBytes + 5)
    /\ mem["ext"] = Run(1, kNumInternalBytes + 5)
    /\ GetKey(Self) = Run(1, kInlineSize + 2)

\* C13: an InternalKey is valid exactly when its buffer is non-empty:
\* whatever rep_ holds, Valid() returns true if and only if rep_ has at
\* least one byte.
C13_ValidIffNonEmpty ==
    pc = "ikey" =>
        \A ndebug \in BOOLEAN :
            Valid(rep_, ndebug) = [status |-> "OK", r |-> rep_ # <<>>]

\* C15: every key-setting operation replaces the whole key: after Set,
\* SetFrom, DecodeFrom, SetMaxPossibleForUserKey(u) or
\* SetMinPossibleForUserKey(u), whatever rep_ held before, rep_ is one
\* encoded key, user_key() is the supplied user key and size() its length
\* plus 8.
C15_WholeKeyReplacement ==
    /\ call.op \in {"Set", "SetFrom", "SetMaxPossibleForUserKey",
                    "SetMinPossibleForUserKey"} =>
           /\ RepSize(rep_) = Len(call.user_key) + kNumInternalBytes
           /\ RepUserKey(rep_) = call.user_key
    /\ (Called("DecodeFrom") /\ call.s \in CmpKeys) => rep_ = call.s

\* C14: for every user key u, the keys MIN and MAX that
\* SetMinPossibleForUserKey(u) and SetMaxPossibleForUserKey(u) produce on a
\* new InternalKey bound every key k = (u, s, t) with s <= 2^56 - 2 and t an
\* extended tag: Compare(MIN, k) <= 0 and Compare(k, MAX) <= 0.
C14_SentinelBounds ==
    Done("Sentinels") => out.lo <= 0 /\ out.hi <= 0

\* the newest real key with the largest tag, strictly inside the bounds
C14_Witness ==
    /\ Done("Sentinels")
    /\ in.u = <<97, 200>>
    /\ in.s = <<65534, 65535, 65535, 255>> /\ in.t = kTypeMaxValid
    /\ in.seek = kTypeWideColumnEntity
    /\ out.lo = -1 /\ out.hi = -1

\* the key with its footer sequence replaced by the override g and its tag
\* kept; the key itself when g is the disable sentinel
Overridden(key, g) ==
    IF g = kDisableGlobalSequenceNumber THEN key
    ELSE ExtractUserKey(key)
             \o EncodeFixed64(OrByte(Shl8(g), LowByte(DecodeFixed64(
                                  LastBytes(key, kNumInternalBytes)))))

IsOverride(g) ==
    g = kDisableGlobalSequenceNumber \/ U64Leq(g, kMaxSequenceNumber)

\* C16: for encoded keys a, b with extended tags and overrides ga, gb that are
\* each the disable sentinel 2^64 - 1 or a sequence number <=
\* kMaxSequenceNumber, Compare(a, ga, b, gb) = Compare(a', b') with a', b' the
\* keys with the overrides in place of their sequence numbers; with both
\* overrides disabled it is Compare(a, b).
C16_GlobalSeqnoOverride ==
    (Done("CompareGlobal") /\ IsOverride(in.ga) /\ IsOverride(in.gb)) =>
        /\ out.status = "OK"
        /\ out.r = Compare(in.ucmp, Overridden(in.a, in.ga),
                           Overridden(in.b, in.gb))
        /\ (in.ga = kDisableGlobalSequenceNumber
                /\ in.gb = kDisableGlobalSequenceNumber) =>
               out.r = Compare(in.ucmp, in.a, in.b)

\* kMaxSequenceNumber as an override turns the order of the keys around
C16_Witness ==
    /\ Done("CompareGlobal")
    /\ ExtractUserKey(in.a) = ExtractUserKey(in.b)
    /\ in.ga = kMaxSequenceNumber
    /\ in.gb = kDisableGlobalSequenceNumber
    /\ Compare(in.ucmp, in.a, in.b) = 1
    /\ out = [status |-> "OK", r |-> -1]

\* C17: CompareKeySeq(a, b) = 0 exactly when the user keys are equal and the
\* sequence numbers are equal, whatever the tags; otherwise it has the sign
\* of Compare(a, b).  The ParsedInternalKey overload returns the same.
C17_KeySeqIgnoresTag ==
    Done("Compare2") =>
        /\ out.keyseq = 0 <=> (in.ua = in.ub /\ in.sa = in.sb)
        /\ out.keyseq # 0 => Sign(out.keyseq) = Sign(out.cmp)
        /\ out.keyseq_parsed = out.keyseq

C17_Witness ==
    /\ Done("Compare2")
    /\ in.ua = in.ub /\ in.sa = in.sb
    /\ in.ta = kTypeValue /\ in.tb = kTypeRangeDeletion
    /\ out.keyseq = 0 /\ out.keyseq_parsed = 0
    /\ out.cmp = 1

\* put, merge, single-deletion, deletion-with-timestamp, blob-index, wide-column
ListedInlineTags ==
    {kTypeValue, kTypeMerge, kTypeSingleDeletion, kTypeDeletionWithTimestamp,
     kTypeBlobIndex, kTypeWideColumnEntity}

\* the classification by a given set of inline-storable tags
ClassifiedBy(inline) ==
    /\ out.value = (in.t \in inline)
    /\ out.extended = (in.t \in inline \cup {kTypeRangeDeletion, kTypeMaxValid})
    /\ in.t \in WalOnlyTags => ~out.value /\ ~out.extended

\* C18 (as stated): over all tag bytes IsValueType holds exactly for put,
\* merge, single-deletion, deletion-with-timestamp, blob-index and
\* wide-column, IsExtendedValueType exactly for these plus range-deletion and
\* kTypeMaxValid, and both reject every WAL-only tag.
C18_ListedTagsOnly ==
    Done("Classify") => ClassifiedBy(ListedInlineTags)

\* C18 (as amended): the inline-storable tags are the listed ones and
\* deletion (kTypeDeletion); the rest of the statement as it stands.
C18_TagClassification ==
    Done("Classify") => ClassifiedBy(ListedInlineTags \cup {kTypeDeletion})

C18_Witness ==
    /\ Done("Classify")
    /\ in.t = kTypeDeletion
    /\ out = [value |-> TRUE, extended |-> TRUE]

\* the seven bytes of a 56-bit sequence number, least significant first
SeqBytes(seq) ==
    <<seq[1] % 256, seq[1] \div 256, seq[2] % 256, seq[2] \div 256,
      seq[3] % 256, seq[3] \div 256, seq[4] % 256>>

\* bytes [len-8, len) of the encoded key are the little-endian encoding of
\* (sequence << 8) | tag, and the two readers give the tag and the sequence
FooterIsFixed64 ==
    /\ LastBytes(out.key, kNumInternalBytes) = <<in.type>> \o SeqBytes(in.sequence)
    /\ ExtractValueType(out.key) = in.type
    /\ GetInternalKeySeqno(out.key) = in.sequence

\* C19 (as stated): bytes [len-8, len) are the little-endian encoding of
\* (sequence << 8) | tag, the byte at index len-1 is the tag and the other
\* seven footer bytes carry the sequence number; ExtractValueType and
\* GetInternalKeySeqno read back that tag and sequence.
C19_TrailingByteIsTag ==
    Done("EncodeParse") =>
        /\ FooterIsFixed64
        /\ out.key[Len(out.key)] = in.type
        /\ SubSeq(out.key, Len(out.key) - 7, Len(out.key) - 1)
               = SeqBytes(in.sequence)

\* C19 (as amended): bytes [len-8, len) are the little-endian encoding of
\* (sequence << 8) | tag, so the byte at index len-8 is the tag and bytes
\* [len-7, len) carry the sequence number, least significant byte first;
\* ExtractValueType and GetInternalKeySeqno read back that tag and sequence.
C19_FooterLayout ==
    Done("EncodeParse") =>
        /\ FooterIsFixed64
        /\ out.key[Len(out.key) - 7] = in.type
        /\ SubSeq(out.key, Len(out.key) - 6, Len(out.key))
               = SeqBytes(in.sequence)

C19_Witness ==
    /\ Done("EncodeParse")
    /\ in.user_key = <<97>>
    /\ in.sequence = U64Small(256)
    /\ in.type = kTypeMerge
    /\ out.key = <<97, kTypeMerge, 0, 1, 0, 0, 0, 0, 0>>

\* the footer bytes for (seq, t)
FooterFor(seq, t) == <<t>> \o SeqBytes(seq)

\* C20: for a RangeTombstone built from (sk, ek, sn, ts) with non-empty ts of
\* any width, SerializeEndKey() is ek without its last |ts| bytes, then |ts|
\* bytes 0xFF, then the footer for (kMaxSequenceNumber, kTypeRangeDeletion);
\* SerializeKey() is sk without its last |ts| bytes, then ts, then the
\* footer for (sn, kTypeRangeDeletion).
C20_TombstoneWithTimestamp ==
    Done("TombstoneTs") =>
        /\ out.end = SubSeq(in.ek, 1, Len(in.ek) - Len(in.ts))
                         \o [i \in 1..Len(in.ts) |-> 255]
                         \o FooterFor(kMaxSequenceNumber, kTypeRangeDeletion)
        /\ out.start = SubSeq(in.sk, 1, Len(in.sk) - Len(in.ts)) \o in.ts
                           \o FooterFor(in.sn, kTypeRangeDeletion)

\* a timestamp wider than kTsMax
C20_Witness ==
    /\ Done("TombstoneTs")
    /\ Len(in.ts) = Len(kTsMax) + 1
    /\ in.ek = <<200>> \o Rep(9, Len(kTsMax) + 1)
    /\ out.end = <<200>> \o Rep(255, Len(kTsMax) + 1)
                     \o <<kTypeRangeDeletion, 255, 255, 255, 255, 255, 255, 255>>

\* C21: in every state that the public operations of an IterKey reach,
\* buf_size_ is at least the inline size, and when the held key is owned its
\* Size() is at most buf_size_ and GetKey() is the bytes the last set or
\* append operation wrote (for EncodeLengthPrefixedKey(k) the varint32 of |k|
\* followed by k).
C21_BufferInvariant ==
    /\ buf_size_ >= kInlineSize
    /\ ~IsKeyPinned(Self) =>
           /\ Size(Self) <= buf_size_
           /\ call.op \in SetOps => GetKey(Self) = call.key
           /\ Called("TrimAppend") => GetKey(Self) = call.target
           /\ Called("EncodeLengthPrefixedKey") =>
                  GetKey(Self) = EncodeVarint32(Len(call.key)) \o call.key

====
